---- MODULE Spec2Model ----
(***************************************************************************)
(* Model of the blogicum views (blog/views.py, blog/forms.py,              *)
(* blog/urls.py): the Post and Comment tables, the list and detail views   *)
(* that read them, and the create / update / delete views that write them. *)
(*                                                                         *)
(* Every view is one atomic step of Next, except CommentCreateView, whose  *)
(* form_valid first looks the post up and later inserts the comment: the   *)
(* two steps are separate actions so that requests of different users      *)
(* overlap.  Requests are form submissions (POST); a form that does not    *)
(* validate leaves the tables as they are.                                 *)
(*                                                                         *)
(* Of a Post the model keeps author, pub_date, is_published and category   *)
(* (the fields the views read); of a Comment author, post and text.        *)
(***************************************************************************)
EXTENDS Integers, Sequences, FiniteSets, TLC

----------------------------------------------------------------------------
(* Bounds and input sets *)

MaxPosts == 1
MaxComments == 2

POSTS_PER_PAGE == 10

Users == {"u1", "u2"}
Anonymous == "anonymous"
Actors == Users \cup {Anonymous}
Usernames == Users \cup {"nobody"}

Times == {1, 2}

NoCategory == "null"
Categories == {"open", "hidden"}
CategoryRefs == Categories \cup {NoCategory}
Slugs == Categories \cup {"missing"}
CategoryIsPublished(c) == c = "open"

Texts == {"a", "b"}

PostPks == 1..(MaxPosts + 1)
CommentPks == 1..(MaxComments + 1)

(* What a post form submits.  The author key is one a client may add: PostForm
   excludes the field, so it is never read. *)
PostForms ==
    [pub_date : Times, is_published : BOOLEAN, category : CategoryRefs,
     author : Users]

VARIABLES
    posts,          \* blog_post: id -> [author, pub_date, is_published, category]
    comments,       \* blog_comment: id -> [author, post, text]
    nextPostId,     \* the next id of blog_post (AUTOINCREMENT)
    nextCommentId,  \* the next id of blog_comment
    inflight,       \* user -> the post their CommentCreateView request found
    origin,         \* history: who created each row, and on which post
    lastWrite       \* history: the last request that wrote to the tables

vars == <<posts, comments, nextPostId, nextCommentId, inflight, origin, lastWrite>>

(* No request in flight; since is the comment id counter the request saw. *)
Idle == [pk |-> 0, since |-> 0]

----------------------------------------------------------------------------
(* Responses *)

Ok == [kind |-> "ok", view |-> "", pk |-> 0, username |-> ""]
NotFound == [kind |-> "not_found", view |-> "", pk |-> 0, username |-> ""]
FormInvalid == [kind |-> "form_invalid", view |-> "", pk |-> 0, username |-> ""]
Proceed == [kind |-> "proceed", view |-> "", pk |-> 0, username |-> ""]
Redirect(view, pk, username) ==
    [kind |-> "redirect", view |-> view, pk |-> pk, username |-> username]
RedirectToLogin == Redirect("login", 0, "")
RedirectToPostDetail(pk) == Redirect("blog:post_detail", pk, "")
RedirectToIndex == Redirect("blog:index", 0, "")
RedirectToProfile(username) == Redirect("blog:profile", 0, username)

(* LoginRequiredMixin.dispatch: an anonymous request goes to the login page,
   any other one goes on to the view's own dispatch. *)
LoginRequiredMixin_dispatch(actor, inner) ==
    IF actor = Anonymous THEN RedirectToLogin ELSE inner

----------------------------------------------------------------------------
(* Query sets *)

PostIds == DOMAIN posts
CommentIds == DOMAIN comments

(* The related manager post.comments *)
CommentsOf(p) == {c \in CommentIds : comments[c].post = p}

(* LEFT OUTER JOIN of the selected posts with blog_comment: one row per
   (post, comment) pair, and one row with a NULL comment (0) for a post
   without comments. *)
JoinComments(ids) ==
    {r \in ids \X CommentIds : comments[r[2]].post = r[1]}
        \cup {<<p, 0>> : p \in {q \in ids : CommentsOf(q) = {}}}

(* As Count_comments, but counting every row: the row of a post without comments is
   counted too. *)
Count_comments_AllRows(rows, p) == Cardinality({r \in rows : r[1] = p})

(* Count("comments"): COUNT(blog_comment.id) over the rows of one post; a
   NULL is not counted. *)
Count_comments(rows, p) == Cardinality({r \in rows : r[1] = p /\ r[2] # 0})

(* order_by("-pub_date"): newest first.  The database leaves the order of
   equal pub_dates open; the model takes the lower id first. *)
Newest(ids) ==
    CHOOSE p \in ids : \A q \in ids :
        \/ posts[p].pub_date > posts[q].pub_date
        \/ posts[p].pub_date = posts[q].pub_date /\ p <= q

RECURSIVE OrderByPubDateDesc(_)
OrderByPubDateDesc(ids) ==
    IF ids = {} THEN <<>>
    ELSE LET p == Newest(ids) IN <<p>> \o OrderByPubDateDesc(ids \ {p})

(* .annotate(comment_count=Count("comments")).order_by("-pub_date") *)
AnnotateAndOrder(ids) ==
    LET rows == JoinComments(ids)
        order == OrderByPubDateDesc(ids)
    IN [i \in 1..Len(order) |->
            [id |-> order[i], comment_count |-> Count_comments(rows, order[i])]]

(* As IndexView_get_queryset, but with pub_date__lte *)
IndexView_get_queryset_UpToNow(now) ==
    AnnotateAndOrder({p \in PostIds :
        /\ posts[p].pub_date <= now
        /\ posts[p].is_published
        /\ posts[p].category # NoCategory
        /\ CategoryIsPublished(posts[p].category)})

(* IndexView.get_queryset: the filter joins blog_category (INNER JOIN), so a
   post without a category has no row. *)
IndexView_get_queryset(now) ==
    AnnotateAndOrder({p \in PostIds :
        /\ posts[p].pub_date < now
        /\ posts[p].is_published
        /\ posts[p].category # NoCategory
        /\ CategoryIsPublished(posts[p].category)})

(* get_object_or_404(User, username=...) *)
UserExists(username) == username \in Users

(* Profile.get_queryset, after the user was found: the viewer is not read *)
Profile_get_queryset(username) ==
    AnnotateAndOrder({p \in PostIds : posts[p].author = username})

(* get_object_or_404(Category, slug=..., is_published=True) *)
CategoryFound(slug) == slug \in Categories /\ CategoryIsPublished(slug)

(* CategoryListView.get_queryset, after the category was found *)
CategoryListView_get_queryset(slug, now) ==
    AnnotateAndOrder({p \in PostIds :
        /\ posts[p].category = slug
        /\ posts[p].pub_date < now
        /\ posts[p].is_published})

(* ListView.paginate_queryset with paginate_by = 10: a page outside
   1..num_pages is a 404, the first page may be empty. *)
NumPages(qs) ==
    IF Len(qs) = 0 THEN 1
    ELSE (Len(qs) + POSTS_PER_PAGE - 1) \div POSTS_PER_PAGE

Listing(found, qs, page) ==
    IF ~found \/ page \notin 1..NumPages(qs)
    THEN [kind |-> "not_found", object_list |-> <<>>]
    ELSE [kind |-> "ok",
          object_list |-> SubSeq(qs, (page - 1) * POSTS_PER_PAGE + 1,
                                 IF page * POSTS_PER_PAGE < Len(qs)
                                 THEN page * POSTS_PER_PAGE ELSE Len(qs))]

Pages == {1, 2}

IndexView_get(viewer, now, page) ==
    Listing(TRUE, IndexView_get_queryset(now), page)

Profile_get(viewer, username, page) ==
    IF UserExists(username)
    THEN Listing(TRUE, Profile_get_queryset(username), page)
    ELSE Listing(FALSE, <<>>, page)

CategoryListView_get(viewer, slug, now, page) ==
    IF CategoryFound(slug)
    THEN Listing(TRUE, CategoryListView_get_queryset(slug, now), page)
    ELSE Listing(FALSE, <<>>, page)

(* PostDetailView: DetailView.get_object over Post.objects.all(); neither the
   requester nor the clock is read. *)
PostDetailView_get(requester, pk, now) ==
    IF pk \in PostIds
    THEN [kind |-> "ok", object |-> pk, comments |-> CommentsOf(pk)]
    ELSE [kind |-> "not_found", object |-> 0, comments |-> {}]

----------------------------------------------------------------------------
(* Views that write: what dispatch answers, and where success leads *)

(* PostUpdateView.dispatch: the lookup and the author test run before
   super().dispatch, that is before LoginRequiredMixin. *)
PostUpdateView_dispatch(actor, pk) ==
    IF pk \notin PostIds THEN NotFound
    ELSE IF posts[pk].author # actor THEN RedirectToPostDetail(pk)
    ELSE LoginRequiredMixin_dispatch(actor, Proceed)

PostUpdateView_get_success_url(pk) == RedirectToPostDetail(pk)

(* As PostDeleteView_dispatch, without the author test *)
PostDeleteView_dispatch_NoAuthorTest(actor, pk) ==
    IF pk \notin PostIds THEN NotFound
    ELSE LoginRequiredMixin_dispatch(actor, Proceed)

(* PostDeleteView.dispatch *)
PostDeleteView_dispatch(actor, pk) ==
    IF pk \notin PostIds THEN NotFound
    ELSE IF posts[pk].author # actor THEN RedirectToPostDetail(pk)
    ELSE LoginRequiredMixin_dispatch(actor, Proceed)

PostDeleteView_success_url == RedirectToIndex

(* PostCreateView and ProfileEdit have no dispatch of their own *)
PostCreateView_dispatch(actor) == LoginRequiredMixin_dispatch(actor, Proceed)
PostCreateView_get_success_url(actor) == RedirectToProfile(actor)

ProfileEdit_dispatch(actor) == LoginRequiredMixin_dispatch(actor, Proceed)
ProfileEdit_get_success_url(actor) == RedirectToProfile(actor)

(* CommentCreateView: LoginRequiredMixin, then form_valid looks the post up *)
CommentCreateView_dispatch(actor) == LoginRequiredMixin_dispatch(actor, Proceed)
CommentCreateView_get_success_url(pk) == RedirectToPostDetail(pk)

(* CommentUpdateView.dispatch: on denial redirect("blog:post_detail",
   comment.pk) *)
CommentUpdateView_dispatch(actor, pk, comment_pk) ==
    IF comment_pk \notin CommentIds THEN NotFound
    ELSE IF comments[comment_pk].author # actor
         THEN RedirectToPostDetail(comment_pk)
    ELSE LoginRequiredMixin_dispatch(actor, Proceed)

(* CommentUpdateView.get_success_url: self.kwargs["pk"] *)
CommentUpdateView_get_success_url(pk, comment_pk) == RedirectToPostDetail(pk)

(* CommentDeleteView.dispatch: on denial redirect("blog:post_detail",
   pk=kwargs["pk"]) *)
CommentDeleteView_dispatch(actor, pk, comment_pk) ==
    IF comment_pk \notin CommentIds THEN NotFound
    ELSE IF comments[comment_pk].author # actor
         THEN RedirectToPostDetail(pk)
    ELSE LoginRequiredMixin_dispatch(actor, Proceed)

CommentDeleteView_success_url == RedirectToIndex

(* The whole answer of a request: dispatch's, or the form's, or success *)
Answer(dispatch, valid, success) ==
    IF dispatch # Proceed THEN dispatch
    ELSE IF ~valid THEN FormInvalid
    ELSE success

PostCreateView_post(actor, valid) ==
    Answer(PostCreateView_dispatch(actor), valid,
           PostCreateView_get_success_url(actor))

PostUpdateView_post(actor, pk, valid) ==
    Answer(PostUpdateView_dispatch(actor, pk), valid,
           PostUpdateView_get_success_url(pk))

PostDeleteView_post(actor, pk) ==
    Answer(PostDeleteView_dispatch(actor, pk), TRUE, PostDeleteView_success_url)

CommentCreateView_post(actor, pk, valid) ==
    Answer(CommentCreateView_dispatch(actor), valid,
           IF pk \in PostIds THEN CommentCreateView_get_success_url(pk)
           ELSE NotFound)

CommentUpdateView_post(actor, pk, comment_pk, valid) ==
    Answer(CommentUpdateView_dispatch(actor, pk, comment_pk), valid,
           CommentUpdateView_get_success_url(pk, comment_pk))

CommentDeleteView_post(actor, pk, comment_pk) ==
    Answer(CommentDeleteView_dispatch(actor, pk, comment_pk), TRUE,
           CommentDeleteView_success_url)

ProfileEdit_post(actor, valid) ==
    Answer(ProfileEdit_dispatch(actor), valid, ProfileEdit_get_success_url(actor))

----------------------------------------------------------------------------
(* Views that write: what they leave in the tables *)

Remove(f, ids) == [k \in (DOMAIN f) \ ids |-> f[k]]
Insert(f, k, v) == [j \in (DOMAIN f) \cup {k} |-> IF j = k THEN v ELSE f[j]]

(* PostCreateView.form_valid: author = request.user, then the INSERT *)
PostCreateView_form_valid(actor, form) ==
    Insert(posts, nextPostId,
           [author |-> actor, pub_date |-> form.pub_date,
            is_published |-> form.is_published, category |-> form.category])

(* As PostUpdateView_form_valid, with a form that does not exclude author *)
PostUpdateView_form_valid_WithAuthor(pk, form) ==
    [posts EXCEPT ![pk] =
        [author |-> form.author, pub_date |-> form.pub_date,
         is_published |-> form.is_published, category |-> form.category]]

(* PostForm excludes author: the UPDATE writes the form's fields only *)
PostUpdateView_form_valid(pk, form) ==
    [posts EXCEPT ![pk] =
        [author |-> posts[pk].author, pub_date |-> form.pub_date,
         is_published |-> form.is_published, category |-> form.category]]

(* CommentForm has the field text only; the post id of the URL is not read *)
CommentUpdateView_form_valid(pk, comment_pk, text) ==
    [comments EXCEPT ![comment_pk] =
        [author |-> comments[comment_pk].author,
         post |-> comments[comment_pk].post, text |-> text]]

(* CommentCreateView.form_valid: author = request.user, post = the post
   found, then the INSERT *)
CommentCreateView_form_valid(actor, post, text) ==
    Insert(comments, nextCommentId,
           [author |-> actor, post |-> post, text |-> text])

(* Comment.post is deleted with its post (on_delete=CASCADE) *)
CascadeComments(pk) == Remove(comments, CommentsOf(pk))

(* The tables <<posts, comments>> after each request *)
Tables == <<posts, comments>>

PostUpdateView_tables(actor, pk, form, valid) ==
    IF PostUpdateView_dispatch(actor, pk) = Proceed /\ valid
    THEN <<PostUpdateView_form_valid(pk, form), comments>>
    ELSE Tables

PostDeleteView_tables(actor, pk) ==
    IF PostDeleteView_dispatch(actor, pk) = Proceed
    THEN <<Remove(posts, {pk}), CascadeComments(pk)>>
    ELSE Tables

CommentUpdateView_tables(actor, pk, comment_pk, text, valid) ==
    IF CommentUpdateView_dispatch(actor, pk, comment_pk) = Proceed /\ valid
    THEN <<posts, CommentUpdateView_form_valid(pk, comment_pk, text)>>
    ELSE Tables

CommentDeleteView_tables(actor, pk, comment_pk) ==
    IF CommentDeleteView_dispatch(actor, pk, comment_pk) = Proceed
    THEN <<posts, Remove(comments, {comment_pk})>>
    ELSE Tables

----------------------------------------------------------------------------
(* The requests *)

Init ==
    /\ posts = <<>>
    /\ comments = <<>>
    /\ nextPostId = 1
    /\ nextCommentId = 1
    /\ inflight = [u \in Users |-> Idle]
    /\ origin = [posts |-> <<>>, comments |-> <<>>]
    /\ lastWrite = [view |-> "", actor |-> "", id |-> 0, raced |-> FALSE]

(* History of a request that got through dispatch and validation *)
Wrote(view, actor, id, raced) ==
    [view |-> view, actor |-> actor, id |-> id, raced |-> raced]

(* The rows that are left keep their origin *)
Forget(t) ==
    [posts |-> [k \in DOMAIN t[1] |-> origin.posts[k]],
     comments |-> [k \in DOMAIN t[2] |-> origin.comments[k]]]

(* The views that only read answer from the tables as they are.  *)
ViewIndex ==
    /\ UNCHANGED vars
    /\ \E viewer \in Actors, now \in Times, page \in Pages :
           IndexView_get(viewer, now, page).kind \in {"ok", "not_found"}

ViewProfile ==
    /\ UNCHANGED vars
    /\ \E viewer \in Actors, username \in Usernames, page \in Pages :
           Profile_get(viewer, username, page).kind \in {"ok", "not_found"}

ViewCategory ==
    /\ UNCHANGED vars
    /\ \E viewer \in Actors, slug \in Slugs, now \in Times, page \in Pages :
           CategoryListView_get(viewer, slug, now, page).kind
               \in {"ok", "not_found"}

ViewPostDetail ==
    /\ UNCHANGED vars
    /\ \E requester \in Actors, pk \in PostPks, now \in Times :
           PostDetailView_get(requester, pk, now).kind \in {"ok", "not_found"}

(* ProfileEdit writes the user's names and e-mail, which no view reads *)
ProfileEdit ==
    /\ UNCHANGED vars
    /\ \E actor \in Actors, valid \in BOOLEAN :
           ProfileEdit_post(actor, valid).kind \in {"redirect", "form_invalid"}

(* A request that dispatch turns away never reads its form: one form stands
   for all of them. *)
AnyPostForm ==
    [pub_date |-> 1, is_published |-> TRUE, category |-> NoCategory,
     author |-> "u1"]
FormsRead(dispatch) == IF dispatch = Proceed THEN PostForms ELSE {AnyPostForm}
TextsRead(dispatch) == IF dispatch = Proceed THEN Texts ELSE {"a"}
ValidRead(dispatch) == IF dispatch = Proceed THEN BOOLEAN ELSE {TRUE}

PostCreate ==
    \E actor \in Actors :
        \E form \in FormsRead(PostCreateView_dispatch(actor)),
           valid \in ValidRead(PostCreateView_dispatch(actor)) :
            IF PostCreateView_dispatch(actor) = Proceed /\ valid
            THEN /\ nextPostId <= MaxPosts
                 /\ posts' = PostCreateView_form_valid(actor, form)
                 /\ nextPostId' = nextPostId + 1
                 /\ origin' = [origin EXCEPT
                        !.posts = Insert(origin.posts, nextPostId, actor)]
                 /\ lastWrite' = Wrote("PostCreateView", actor, nextPostId, FALSE)
                 /\ UNCHANGED <<comments, nextCommentId, inflight>>
            ELSE UNCHANGED vars

PostUpdate ==
    \E actor \in Actors, pk \in PostPks :
        \E form \in FormsRead(PostUpdateView_dispatch(actor, pk)),
           valid \in ValidRead(PostUpdateView_dispatch(actor, pk)) :
            /\ LET t == PostUpdateView_tables(actor, pk, form, valid)
               IN posts' = t[1] /\ comments' = t[2]
            /\ lastWrite' =
                   IF PostUpdateView_dispatch(actor, pk) = Proceed /\ valid
                   THEN Wrote("PostUpdateView", actor, pk, FALSE)
                   ELSE lastWrite
            /\ UNCHANGED <<nextPostId, nextCommentId, inflight, origin>>

PostDelete ==
    \E actor \in Actors, pk \in PostPks :
        /\ LET t == PostDeleteView_tables(actor, pk)
           IN posts' = t[1] /\ comments' = t[2] /\ origin' = Forget(t)
        /\ lastWrite' =
               IF PostDeleteView_dispatch(actor, pk) = Proceed
               THEN Wrote("PostDeleteView", actor, pk, FALSE)
               ELSE lastWrite
        /\ UNCHANGED <<nextPostId, nextCommentId, inflight>>

(* CommentCreateView up to get_object_or_404(Post, pk=...) in form_valid *)
CommentCreateLookup ==
    \E actor \in Actors, pk \in PostPks, valid \in BOOLEAN :
        IF CommentCreateView_post(actor, pk, valid).kind = "redirect"
           /\ CommentCreateView_dispatch(actor) = Proceed
        THEN /\ inflight[actor] = Idle
             /\ inflight' = [inflight EXCEPT
                    ![actor] = [pk |-> pk, since |-> nextCommentId]]
             /\ UNCHANGED <<posts, comments, nextPostId, nextCommentId,
                            origin, lastWrite>>
        ELSE UNCHANGED vars

(* ... and from there on: author and post are set, super().form_valid saves.
   The INSERT of a comment whose post is gone meanwhile fails on the foreign
   key.  raced: another comment on the same post was saved since the lookup. *)
CommentCreateSave ==
    \E actor \in Users, text \in Texts :
        /\ inflight[actor] # Idle
        /\ inflight' = [inflight EXCEPT ![actor] = Idle]
        /\ IF inflight[actor].pk \in PostIds
           THEN /\ nextCommentId <= MaxComments
                /\ comments' = CommentCreateView_form_valid(
                                   actor, inflight[actor].pk, text)
                /\ nextCommentId' = nextCommentId + 1
                /\ origin' = [origin EXCEPT
                       !.comments = Insert(origin.comments, nextCommentId,
                           [author |-> actor, post |-> inflight[actor].pk])]
                /\ lastWrite' = Wrote("CommentCreateView", actor, nextCommentId,
                       \E c \in CommentsOf(inflight[actor].pk) :
                           c >= inflight[actor].since)
           ELSE UNCHANGED <<comments, nextCommentId, origin, lastWrite>>
        /\ UNCHANGED <<posts, nextPostId>>

CommentUpdate ==
    \E actor \in Actors, pk \in PostPks, comment_pk \in CommentPks :
        \E text \in TextsRead(CommentUpdateView_dispatch(actor, pk, comment_pk)),
           valid \in ValidRead(CommentUpdateView_dispatch(actor, pk, comment_pk)) :
            /\ LET t == CommentUpdateView_tables(actor, pk, comment_pk, text, valid)
               IN posts' = t[1] /\ comments' = t[2]
            /\ lastWrite' =
                   IF CommentUpdateView_dispatch(actor, pk, comment_pk) = Proceed
                      /\ valid
                   THEN Wrote("CommentUpdateView", actor, comment_pk, FALSE)
                   ELSE lastWrite
            /\ UNCHANGED <<nextPostId, nextCommentId, inflight, origin>>

CommentDelete ==
    \E actor \in Actors, pk \in PostPks, comment_pk \in CommentPks :
        /\ LET t == CommentDeleteView_tables(actor, pk, comment_pk)
           IN posts' = t[1] /\ comments' = t[2] /\ origin' = Forget(t)
        /\ lastWrite' =
               IF CommentDeleteView_dispatch(actor, pk, comment_pk) = Proceed
               THEN Wrote("CommentDeleteView", actor, comment_pk, FALSE)
               ELSE lastWrite
        /\ UNCHANGED <<nextPostId, nextCommentId, inflight>>

Next ==
    \/ ViewIndex
    \/ ViewProfile
    \/ ViewCategory
    \/ ViewPostDetail
    \/ ProfileEdit
    \/ PostCreate
    \/ PostUpdate
    \/ PostDelete
    \/ CommentCreateLookup
    \/ CommentCreateSave
    \/ CommentUpdate
    \/ CommentDelete

Spec == Init /\ [][Next]_vars

----------------------------------------------------------------------------
(* Properties *)

Ids(object_list) == {object_list[i].id : i \in 1..Len(object_list)}

(* The public visibility predicate: published, pub_date before the query
   time, and a category that is absent or published. *)
PubliclyVisible(p, now) ==
    /\ posts[p].pub_date < now
    /\ posts[p].is_published
    /\ (posts[p].category = NoCategory \/ CategoryIsPublished(posts[p].category))

PostsBy(u) == {p \in PostIds : posts[p].author = u}

(* C1: the profile feed of U shows any other viewer only the publicly visible
   posts of U, and shows U all of U's posts. *)
C1_ProfileFeedHidesDrafts ==
    \A u \in Users, now \in Times :
        /\ Ids(Profile_get(u, u, 1).object_list) = PostsBy(u)
        /\ \A v \in Actors \ {u} :
               Ids(Profile_get(v, u, 1).object_list)
                   = {p \in PostsBy(u) : PubliclyVisible(p, now)}

(* C2: the detail view of a post that is not publicly visible answers
   "not found" to everyone but its author. *)
C2_DetailHidesDrafts ==
    \A r \in Actors, pk \in PostIds, now \in Times :
        (r # posts[pk].author /\ ~PubliclyVisible(pk, now))
            => PostDetailView_get(r, pk, now).kind = "not_found"

(* C3: an update or delete of a post or comment by a logged-in user is
   applied exactly if the user is its author; a request of anyone else
   leaves both tables as they are. *)
C3_OnlyAuthorWrites ==
    /\ \A a \in Users, pk \in PostIds, form \in PostForms :
           LET upd == PostUpdateView_tables(a, pk, form, TRUE)
               del == PostDeleteView_tables(a, pk)
           IN IF a = posts[pk].author
              THEN /\ upd[1][pk].pub_date = form.pub_date
                   /\ upd[1][pk].is_published = form.is_published
                   /\ upd[1][pk].category = form.category
                   /\ pk \notin DOMAIN del[1]
              ELSE upd = <<posts, comments>> /\ del = <<posts, comments>>
    /\ \A a \in Users, pk \in PostPks, c \in CommentIds, text \in Texts :
           LET upd == CommentUpdateView_tables(a, pk, c, text, TRUE)
               del == CommentDeleteView_tables(a, pk, c)
           IN IF a = comments[c].author
              THEN upd[2][c].text = text /\ c \notin DOMAIN del[2]
              ELSE upd = <<posts, comments>> /\ del = <<posts, comments>>

(* A post was updated by its author, and a request of the other user on it,
   and on a comment of somebody else, is turned away. *)
C3_Witness ==
    \E pk \in PostIds, a \in Users, c \in CommentIds :
        /\ lastWrite = Wrote("PostUpdateView", posts[pk].author, pk, FALSE)
        /\ a # posts[pk].author
        /\ a # comments[c].author
        /\ PostUpdateView_post(a, pk, TRUE).kind = "redirect"
        /\ CommentDeleteView_post(a, pk, c).kind = "redirect"

(* C4: at every query time the global feed and every category feed list only
   posts with pub_date strictly before it, is_published set and a published
   category. *)
C4_FeedsListPublicOnly ==
    \A viewer \in Actors, now \in Times, page \in Pages, slug \in Slugs :
        \A p \in Ids(IndexView_get(viewer, now, page).object_list)
                \cup Ids(CategoryListView_get(viewer, slug, now, page).object_list) :
            /\ posts[p].pub_date < now
            /\ posts[p].is_published
            /\ posts[p].category \in Categories
            /\ CategoryIsPublished(posts[p].category)

(* A published post of a published category whose pub_date is the query time
   is in the table and in neither feed. *)
C4_Witness ==
    \E p \in PostIds, now \in Times :
        /\ posts[p].pub_date = now
        /\ posts[p].is_published
        /\ posts[p].category = "open"
        /\ p \notin Ids(IndexView_get(Anonymous, now, 1).object_list)
        /\ p \notin Ids(CategoryListView_get(Anonymous, "open", now, 1).object_list)
        /\ p \in Ids(Profile_get(Anonymous, posts[p].author, 1).object_list)

MutationAnswers(actor) ==
    {PostCreateView_post(actor, valid) : valid \in BOOLEAN}
    \cup {ProfileEdit_post(actor, valid) : valid \in BOOLEAN}
    \cup {PostUpdateView_post(actor, pk, valid) : pk \in PostPks, valid \in BOOLEAN}
    \cup {PostDeleteView_post(actor, pk) : pk \in PostPks}
    \cup {CommentCreateView_post(actor, pk, valid) :
              pk \in PostPks, valid \in BOOLEAN}
    \cup UNION {{CommentUpdateView_post(actor, pk, c, valid),
                 CommentDeleteView_post(actor, pk, c)} :
                    pk \in PostPks, c \in CommentPks, valid \in BOOLEAN}

(* C5: every create, update, delete and profile edit request of an anonymous
   actor is answered with the redirect to the login page. *)
C5_AnonymousGoesToLogin ==
    \A answer \in MutationAnswers(Anonymous) : answer = RedirectToLogin

(* C6: a post or comment update or delete that is denied to a logged-in user
   redirects to the detail view of the post, or of the comment's post. *)
C6_DenialRedirectsToParentPost ==
    /\ \A a \in Users, pk \in PostIds :
           a # posts[pk].author =>
               /\ PostUpdateView_post(a, pk, TRUE) = RedirectToPostDetail(pk)
               /\ PostDeleteView_post(a, pk) = RedirectToPostDetail(pk)
    /\ \A a \in Users, pk \in PostPks, c \in CommentIds :
           a # comments[c].author =>
               /\ CommentUpdateView_post(a, pk, c, TRUE)
                      = RedirectToPostDetail(comments[c].post)
               /\ CommentDeleteView_post(a, pk, c)
                      = RedirectToPostDetail(comments[c].post)

(* C7: a comment update and a comment delete by the comment's author both
   redirect to the detail view of the comment's post, whatever the post id
   of the URL. *)
C7_SuccessRedirectsToParentPost ==
    \A pk \in PostPks, c \in CommentIds :
        /\ CommentUpdateView_post(comments[c].author, pk, c, TRUE)
               = RedirectToPostDetail(comments[c].post)
        /\ CommentDeleteView_post(comments[c].author, pk, c)
               = RedirectToPostDetail(comments[c].post)

(* C8: a published post without a category and with pub_date before the
   query time is in the global feed. *)
C8_NoCategoryIsListed ==
    \A p \in PostIds, now \in Times :
        (posts[p].category = NoCategory /\ posts[p].is_published
         /\ posts[p].pub_date < now)
            => p \in Ids(IndexView_get(Anonymous, now, 1).object_list)

Feeds ==
    {IndexView_get(viewer, now, page).object_list :
        viewer \in Actors, now \in Times, page \in Pages}
    \cup {CategoryListView_get(viewer, slug, now, page).object_list :
        viewer \in Actors, slug \in Slugs, now \in Times, page \in Pages}
    \cup {Profile_get(viewer, username, page).object_list :
        viewer \in Actors, username \in Usernames, page \in Pages}

CommentCountLive ==
    \A feed \in Feeds : \A i \in 1..Len(feed) :
        feed[i].comment_count = Cardinality(CommentsOf(feed[i].id))

(* The comment_count the profile feed of its author attaches to each post *)
ProfileCounts ==
    [p \in PostIds |->
        LET feed == Profile_get(Anonymous, posts[p].author, 1).object_list
        IN feed[CHOOSE i \in 1..Len(feed) : feed[i].id = p].comment_count]

CommentCreateAddsOne ==
    (lastWrite' # lastWrite /\ lastWrite'.view = "CommentCreateView")
        => LET p == comments'[lastWrite'.id].post
           IN /\ lastWrite'.id \in CommentIds' \ CommentIds
              /\ CommentIds \subseteq CommentIds'
              /\ ProfileCounts'[p] = ProfileCounts[p] + 1

(* C9: the comment_count of every post in every feed is the number of
   comments that reference the post, and a comment creation that is saved,
   overlapping another one or not, adds the comment and raises the count of
   its post by one. *)
C9_CommentCountIsLive == []CommentCountLive /\ [][CommentCreateAddsOne]_vars

(* Two comment creations on one post overlapped, both comments are stored
   and the feed counts both. *)
C9_Witness ==
    \E p \in PostIds :
        /\ lastWrite.view = "CommentCreateView"
        /\ lastWrite.raced
        /\ lastWrite.id \in CommentsOf(p)
        /\ Cardinality(CommentsOf(p)) = 2
        /\ ProfileCounts[p] = 2

(* C10: every post has the author who created it, and every comment the
   author who created it and the post it was created on. *)
C10_AuthorAndPostAreKept ==
    /\ DOMAIN origin.posts = PostIds
    /\ DOMAIN origin.comments = CommentIds
    /\ \A p \in PostIds : posts[p].author = origin.posts[p]
    /\ \A c \in CommentIds :
           /\ comments[c].author = origin.comments[c].author
           /\ comments[c].post = origin.comments[c].post

(* A comment of one user on a post of the other was updated by its author,
   and is still that user's comment on that post. *)
C10_Witness ==
    \E c \in CommentIds :
        /\ lastWrite = Wrote("CommentUpdateView", comments[c].author, c, FALSE)
        /\ comments[c].post \in PostIds
        /\ comments[c].author # posts[comments[c].post].author

====
